---- MODULE Spec2Model ----
(***************************************************************************)
(* DBVersioning: the version chain walk of StateVersion (upgrade,          *)
(* rollback, find_previous_version), the Version metaclass comparisons,    *)
(* the VersionManager registry (register_versions, rollback) and the       *)
(* SQLite3Interface version table (check_version, set_version,             *)
(* remove_version) with the recording sqlite.StateVersion subclass.        *)
(***************************************************************************)
EXTENDS Integers, Sequences, FiniteSets, TLC

(***************************************************************************)
(* Bounds of the model.                                                    *)
(***************************************************************************)
\* longest argument list of one register_versions call
MaxBatch == 2

\* deepest recursion of upgrade and find_previous_version that is followed
MaxDepth == 4

None == "None"

(***************************************************************************)
(* The State descriptors and the StateVersion classes of the program.      *)
(* Core is the chain of the example: 1.0 <- 2.0 <- 2.1.  Aux holds the     *)
(* chains a class definition can get wrong: a3 <- a2 descends in version,  *)
(* x4 names a predecessor of another State.  sCore2 is a second State       *)
(* object constructed with the name "Core", and t1 its only class.         *)
(***************************************************************************)
States == {"sCore", "sAux"}

Descriptors == States \cup {"sCore2"}

StateName == [s \in Descriptors |-> IF s = "sAux" THEN "Aux" ELSE "Core"]

Names == {StateName[s] : s \in States}

Nodes == {"c1", "c2", "c3", "a3", "a2", "x4"}

Classes == Nodes \cup {"t1"}

STATE_ ==
  [n \in Classes |->
     IF n \in {"c1", "c2", "c3"} THEN "sCore"
     ELSE IF n = "t1" THEN "sCore2" ELSE "sAux"]

VERSION ==
  [n \in Classes |->
     CASE n = "c1" -> <<"1", ".", "0">>
       [] n = "t1" -> <<"1", ".", "0">>
       [] n = "c2" -> <<"2", ".", "0">>
       [] n = "c3" -> <<"2", ".", "1">>
       [] n = "a3" -> <<"3", ".", "0">>
       [] n = "a2" -> <<"2", ".", "0">>
       [] n = "x4" -> <<"3", ".", "1">>]

PREVIOUSVERSION ==
  [n \in Classes |->
     CASE n = "c2" -> "c1"
       [] n = "c3" -> "c2"
       [] n = "a2" -> "a3"
       [] n = "x4" -> "c1"
       [] OTHER -> None]

(***************************************************************************)
(* DotVersion: a dotted string parsed into its numeric components, and     *)
(* printed back.  Strings are sequences of one-character strings.          *)
(***************************************************************************)
Digits == <<"0", "1", "2", "3", "4", "5", "6", "7", "8", "9">>

DigitVal(c) == (CHOOSE i \in 1..10 : Digits[i] = c) - 1

RECURSIVE ParseSegments(_, _, _)
ParseSegments(s, cur, acc) ==
  IF s = <<>> THEN Append(acc, cur)
  ELSE IF Head(s) = "." THEN ParseSegments(Tail(s), 0, Append(acc, cur))
  ELSE ParseSegments(Tail(s), cur * 10 + DigitVal(Head(s)), acc)

DotVersion(s) == ParseSegments(s, 0, <<>>)

RECURSIVE IntStr(_)
IntStr(n) ==
  IF n < 10 THEN <<Digits[n + 1]>>
  ELSE IntStr(n \div 10) \o <<Digits[(n % 10) + 1]>>

RECURSIVE DotVersion_str(_)
DotVersion_str(d) ==
  IF Len(d) = 1 THEN IntStr(d[1])
  ELSE IntStr(d[1]) \o <<".">> \o DotVersion_str(Tail(d))

DotVersion_eq(a, b) == a = b

RECURSIVE DotVersion_lt(_, _)
DotVersion_lt(a, b) ==
  IF b = <<>> THEN FALSE
  ELSE IF a = <<>> THEN TRUE
  ELSE IF Head(a) # Head(b) THEN Head(a) < Head(b)
  ELSE DotVersion_lt(Tail(a), Tail(b))

(***************************************************************************)
(* Python values that reach the comparisons: None, a str, a DotVersion or  *)
(* a StateVersion class.                                                   *)
(***************************************************************************)
PyNone == [t |-> "none", s |-> <<>>, d |-> <<>>, n |-> None]
PyStr(str) == [t |-> "str", s |-> str, d |-> <<>>, n |-> None]
PyDV(dv) == [t |-> "dv", s |-> <<>>, d |-> dv, n |-> None]
PyNode(cls) == [t |-> "node", s |-> <<>>, d |-> <<>>, n |-> cls]

\* bool(value): None and the empty string are falsy, a DotVersion and a class
\* are truthy
Truthy(v) == ~(v.t = "none" \/ (v.t = "str" /\ v.s = <<>>))

\* StateVersion.version
version(cls) == DotVersion(VERSION[cls])

\* StateVersion.state
state(cls) == STATE_[cls]

(***************************************************************************)
(* The Version metaclass.  A comparison yields "True", "False",            *)
(* "NotImplemented", or raises "TypeError" when Python finds no method     *)
(* that accepts the operands.                                              *)
(***************************************************************************)
Bool(b) == IF b THEN "True" ELSE "False"

Not(r) == IF r = "True" THEN "False" ELSE IF r = "False" THEN "True" ELSE r

\* the version the metaclass derives from the other operand
OtherVersion(other) ==
  CASE other.t = "str" -> DotVersion(other.s)
    [] other.t = "dv" -> other.d
    [] other.t = "node" -> version(other.n)

Version_eq(self, other) ==
  IF other.t = "none" THEN "NotImplemented"
  ELSE Bool(DotVersion_eq(version(self), OtherVersion(other)))

\* slip: no class is ever found below the other operand
Version_lt_never(self, other) ==
  IF other.t = "none" THEN "NotImplemented" ELSE "False"

Version_lt(self, other) ==
  IF other.t = "none" THEN "NotImplemented"
  ELSE Bool(DotVersion_lt(version(self), OtherVersion(other)))

\* slip: == never finds two versions equal
SelfEq_never(self, other) == "False"

\* the expression  self == other  inside the metaclass: NotImplemented from
\* both operands falls back to identity
SelfEq(self, other) ==
  IF Version_eq(self, other) = "NotImplemented" THEN "False"
  ELSE Version_eq(self, other)

\* the expression  self < other  inside the metaclass
SelfLt(self, other) ==
  IF Version_lt(self, other) = "NotImplemented" THEN "TypeError"
  ELSE Version_lt(self, other)

Version_ne(self, other) == Not(SelfEq(self, other))

\* slip: <= forgets the equal case
Version_le_strict(self, other) == SelfLt(self, other)

Version_le(self, other) ==
  IF SelfEq(self, other) = "True" THEN "True" ELSE SelfLt(self, other)

\* slip: > written as the negation of <
Version_gt_not_lt(self, other) == Not(SelfLt(self, other))

Version_gt(self, other) == Not(Version_le(self, other))

\* slip: >= forgets the equal case
Version_ge_strict(self, other) == Version_gt(self, other)

Version_ge(self, other) == Not(SelfLt(self, other))

(***************************************************************************)
(* The comparisons StateVersion.upgrade writes with from_version on the    *)
(* left: a class operand uses its metaclass method, a str operand returns  *)
(* NotImplemented and Python calls the reflected method of the right one.  *)
(***************************************************************************)
\* slip: the guard against a newer installed version never fires
FromGt_never(from, cls) == "False"

FromGt(from, cls) ==
  IF from.t = "node" THEN Version_gt(from.n, PyNode(cls))
  ELSE SelfLt(cls, from)

\* slip: the installed version is never recognised as the target
FromEq_never(from, cls) == "False"

FromEq(from, cls) ==
  IF from.t = "node" THEN SelfEq(from.n, PyNode(cls))
  ELSE SelfEq(cls, from)

\* slip: the predecessor is never found to be ahead of the installed version
FromLt_never(from, prev) == IF prev = None THEN "TypeError" ELSE "False"

FromLt(from, prev) ==
  IF prev = None THEN "TypeError"
  ELSE IF from.t = "node" THEN SelfLt(from.n, PyNode(prev))
  ELSE Version_gt(prev, from)

(***************************************************************************)
(* SQLite3Interface: the __states table, one row per state name.           *)
(***************************************************************************)
Row(name, str) == [state |-> name, version |-> str]

\* DBInterface._statecheck: a StateVersion stands for its State
_statecheck(arg) == IF arg \in Classes THEN state(arg) ELSE arg

check_version(db, arg) ==
  LET name == StateName[_statecheck(arg)]
  IN  IF \E r \in db : r.state = name
      THEN PyStr((CHOOSE r \in db : r.state = name).version)
      ELSE PyNone

\* slip: INSERT without the ON CONFLICT clause, an existing row is kept
set_version_insert_only(db, stateversion) ==
  LET name == StateName[state(stateversion)]
  IN  IF \E r \in db : r.state = name THEN db
      ELSE db \cup {Row(name, DotVersion_str(version(stateversion)))}

\* slip: the table is emptied before the row is written
set_version_alone(db, stateversion) ==
  {Row(StateName[state(stateversion)], DotVersion_str(version(stateversion)))}

set_version(db, stateversion) ==
  LET name == StateName[state(stateversion)]
  IN  {r \in db : r.state # name}
        \cup {Row(name, DotVersion_str(version(stateversion)))}

\* slip: the DELETE matches no row
remove_version_none(db, st) == db

remove_version(db, st) == {r \in db : r.state # StateName[st]}

(***************************************************************************)
(* One call in progress: the table, the manager's _states, the actions     *)
(* invoked so far, the exception raised, the value returned, the warnings  *)
(* emitted, and the class whose action raises (None: no action raises).    *)
(***************************************************************************)
Call(db, reg, bad) ==
  [db |-> db, states |-> reg, log |-> <<>>, err |-> None, ret |-> None,
   warnings |-> 0, bad |-> bad]

Raise(c, e) == [c EXCEPT !.err = e]

Failed(c) == c.err # None

Act(kind, cls) == [act |-> kind, node |-> cls]

\* an action supplied by the subclass: it runs, and raises when it is the bad one
Invoke(kind, cls, c) ==
  IF cls = c.bad
  THEN [c EXCEPT !.log = Append(@, Act(kind, cls)), !.err = "ActionError"]
  ELSE [c EXCEPT !.log = Append(@, Act(kind, cls))]

apply_upgrade(cls, c) == Invoke("upgrade", cls, c)

apply_rollback(cls, c) == Invoke("rollback", cls, c)

(***************************************************************************)
(* StateVersion.                                                           *)
(***************************************************************************)
\* the class, None, or "ValueError" when the predecessor has another State
previous_version(cls) ==
  IF PREVIOUSVERSION[cls] = None THEN None
  ELSE IF state(cls) # state(PREVIOUSVERSION[cls]) THEN "ValueError"
  ELSE PREVIOUSVERSION[cls]

\* slip: every class is taken for a base version
is_base_verison_always(cls) == TRUE

is_base_verison(cls) == PREVIOUSVERSION[cls] = None

RECURSIVE upgrade(_, _, _)
RECURSIVE sqlite_upgrade(_, _, _)

\* DBVersioning.StateVersion.upgrade
upgrade(cls, from_version, c) ==
  IF ~Truthy(from_version)
  THEN IF ~is_base_verison(cls)
       THEN IF previous_version(cls) = "ValueError" THEN Raise(c, "ValueError")
            ELSE LET r == sqlite_upgrade(previous_version(cls), PyNone, c)
                 IN  IF Failed(r) THEN r ELSE apply_upgrade(cls, r)
       ELSE apply_upgrade(cls, c)
  ELSE IF FromGt(from_version, cls) = "TypeError" THEN Raise(c, "TypeError")
  ELSE IF FromGt(from_version, cls) = "True" THEN Raise(c, "AttributeError")
  ELSE IF FromEq(from_version, cls) = "True" THEN c
  ELSE IF previous_version(cls) = "ValueError" THEN Raise(c, "ValueError")
  ELSE IF FromLt(from_version, previous_version(cls)) = "TypeError"
       THEN Raise(c, "TypeError")
  ELSE IF FromLt(from_version, previous_version(cls)) = "True"
       THEN LET r == sqlite_upgrade(previous_version(cls), from_version, c)
            IN  IF Failed(r) THEN r ELSE apply_upgrade(cls, r)
  ELSE apply_upgrade(cls, c)

\* slip: the version is recorded although the upgrade raised
sqlite_upgrade_records_always(cls, from_version, c) ==
  LET r == upgrade(cls, from_version, c)
  IN  [r EXCEPT !.db = set_version(@, cls)]

\* DBVersioning.sqlite.StateVersion.upgrade
sqlite_upgrade(cls, from_version, c) ==
  LET r == upgrade(cls, from_version, c)
  IN  IF Failed(r) THEN r ELSE [r EXCEPT !.db = set_version(@, cls)]

\* slip: rollback returns nothing
rollback_returns_none(cls, c) == apply_rollback(cls, c)

\* DBVersioning.StateVersion.rollback
rollback(cls, c) ==
  LET r == apply_rollback(cls, c)
  IN  IF Failed(r) THEN r
      ELSE IF previous_version(cls) = "ValueError" THEN Raise(r, "ValueError")
      ELSE [r EXCEPT !.ret = previous_version(cls)]

\* slip: the table is left as it was after the rollback
sqlite_rollback_unrecorded(cls, c) == rollback(cls, c)

\* DBVersioning.sqlite.StateVersion.rollback
sqlite_rollback(cls, c) ==
  LET r == rollback(cls, c)
  IN  IF Failed(r) THEN r
      ELSE IF r.ret # None THEN [r EXCEPT !.db = set_version(@, r.ret)]
      ELSE [r EXCEPT !.db = remove_version(@, state(cls))]

\* slip: the nearest predecessor is returned without comparing its version
find_previous_version_nearest(cls, versionnumber) ==
  IF versionnumber.t \notin {"str", "dv"} THEN "TypeError"
  ELSE IF previous_version(cls) = "ValueError" THEN "ValueError"
  ELSE IF previous_version(cls) = None THEN "VersionNotFoundError"
  ELSE previous_version(cls)

\* the class found, or the name of the exception raised
RECURSIVE find_previous_version(_, _)
find_previous_version(cls, versionnumber) ==
  IF versionnumber.t \notin {"str", "dv"} THEN "TypeError"
  ELSE IF previous_version(cls) = "ValueError" THEN "ValueError"
  ELSE IF previous_version(cls) = None THEN "VersionNotFoundError"
  ELSE IF SelfEq(previous_version(cls), versionnumber) = "True"
       THEN previous_version(cls)
  ELSE find_previous_version(previous_version(cls), versionnumber)

Errors ==
  {"TypeError", "ValueError", "AttributeError", "VersionNotFoundError",
   "RollbackError", "KeyError", "ActionError"}

(***************************************************************************)
(* VersionManager.                                                         *)
(***************************************************************************)
\* the body of the loop of register_versions, for one StateVersion
register_version(stateversion, rollback_warnings_, c) ==
  LET checked == check_version(c.db, stateversion)
      currentversion ==
        IF checked.t = "str" THEN PyDV(DotVersion(checked.s)) ELSE checked
      r == IF Truthy(currentversion)
           THEN IF Version_gt(stateversion, currentversion) = "True"
                THEN LET previous ==
                           find_previous_version(stateversion, currentversion)
                     IN  IF previous \in Errors THEN Raise(c, previous)
                         ELSE sqlite_upgrade(stateversion, PyNode(previous), c)
                ELSE IF Version_lt(stateversion, currentversion) = "True"
                THEN IF rollback_warnings_
                     THEN [c EXCEPT !.warnings = @ + 1]
                     ELSE Raise(c, "RollbackError")
                ELSE c
           ELSE sqlite_upgrade(stateversion, PyNone, c)
  IN  IF Failed(r) THEN r
      ELSE [r EXCEPT !.states = [@ EXCEPT ![state(stateversion)] = stateversion]]

\* slip: the loop goes on to the next class after one has raised
RECURSIVE register_versions_continues(_, _, _)
register_versions_continues(versions, rollback_warnings_, c) ==
  IF versions = <<>> THEN c
  ELSE LET r == register_version(Head(versions), rollback_warnings_,
                                 [c EXCEPT !.err = None])
       IN  register_versions_continues(
             Tail(versions), rollback_warnings_,
             IF Failed(c) THEN Raise(r, c.err) ELSE r)

RECURSIVE register_versions(_, _, _)
register_versions(versions, rollback_warnings_, c) ==
  IF versions = <<>> \/ Failed(c) THEN c
  ELSE register_versions(Tail(versions), rollback_warnings_,
                         register_version(Head(versions), rollback_warnings_, c))

\* slip: the entry is deleted whatever the rollback returned
VersionManager_rollback_deletes(arg, c) ==
  LET st == IF arg \in Classes THEN state(arg) ELSE arg
  IN  IF c.states[st] = None THEN Raise(c, "KeyError")
      ELSE LET r == sqlite_rollback(c.states[st], c)
           IN  IF Failed(r) THEN r
               ELSE [r EXCEPT !.states = [@ EXCEPT ![st] = None],
                              !.ret = None]

\* slip: a state without an entry is passed over in silence
VersionManager_rollback_silent(arg, c) ==
  LET st == IF arg \in Classes THEN state(arg) ELSE arg
  IN  IF c.states[st] = None THEN c
      ELSE LET r == sqlite_rollback(c.states[st], c)
           IN  IF Failed(r) THEN r
               ELSE [r EXCEPT !.states = [@ EXCEPT ![st] = r.ret],
                              !.ret = None]

\* VersionManager.rollback
VersionManager_rollback(arg, c) ==
  LET st == IF arg \in Classes THEN state(arg) ELSE arg
  IN  IF c.states[st] = None THEN Raise(c, "KeyError")
      ELSE LET r == sqlite_rollback(c.states[st], c)
           IN  IF Failed(r) THEN r
               ELSE [r EXCEPT !.states = [@ EXCEPT ![st] = r.ret],
                              !.ret = None]

(***************************************************************************)
(* The state: the __states table of the database, the manager's _states    *)
(* and rollback_warnings, and the call that has just returned to its       *)
(* caller (op "idle" once the caller has taken the outcome); walk is a call *)
(* of upgrade or find_previous_version followed frame by frame; managers is *)
(* two VersionManagers registering one class on the same database, each at *)
(* its own point of register_versions.                                     *)
(***************************************************************************)
VARIABLES installed, _states, rollback_warnings, last, walk, managers

vars == <<installed, _states, rollback_warnings, last, walk, managers>>

\* the version strings a caller passes and an existing database may hold:
\* below, at, between and above the versions of the Core chain
VersionStrings ==
  {<<"0", ".", "1">>, <<"1", ".", "0">>, <<"1", ".", "1">>,
   <<"2", ".", "0">>, <<"2", ".", "1">>, <<"3", ".", "0">>,
   <<"3", ".", "1">>}

\* the table of a new database, or of an existing one with a state installed
Tables ==
  {{}} \cup {{Row(name, s)} : name \in Names, s \in VersionStrings}

FromVersions ==
  {PyNone} \cup {PyStr(s) : s \in VersionStrings} \cup {PyNode(n) : n \in Nodes}

VersionNumbers ==
  {PyNone} \cup {PyStr(s) : s \in VersionStrings}
    \cup {PyDV(DotVersion(s)) : s \in VersionStrings}

Batches == UNION {[1..k -> Nodes] : k \in 0..MaxBatch}

\* the classes whose action a call may find raising
FailingActions == {None, "c2"}

\* the outcome of a call, with its arguments and the state it started from
Last(op, versions, arg, from_version, c) ==
  [op |-> op, versions |-> versions, arg |-> arg, from |-> from_version,
   log |-> c.log, err |-> c.err, ret |-> c.ret, warnings |-> c.warnings,
   db0 |-> installed, states0 |-> _states]

NoCall ==
  [op |-> "idle", versions |-> <<>>, arg |-> None, from |-> PyNone,
   log |-> <<>>, err |-> None, ret |-> None, warnings |-> 0,
   db0 |-> {}, states0 |-> [s \in Descriptors |-> None]]

\* no call is being followed frame by frame
NoWalk ==
  [op |-> "idle", cls |-> None, from |-> PyNone, path |-> <<>>,
   phase |-> "done", returns |-> FALSE, unwound |-> 0, log |-> <<>>,
   err |-> None, ret |-> None, db0 |-> {}]

Managers == {"A", "B"}

\* no second manager works on the database
NoManagers ==
  [cls |-> None,
   pc |-> [m \in Managers |-> "idle"],
   current |-> [m \in Managers |-> PyNone],
   todo |-> [m \in Managers |-> <<>>],
   err |-> [m \in Managers |-> None],
   active |-> [m \in Managers |-> None],
   log |-> <<>>]

\* VersionManager(dbinterface, versions = []) on a new or an existing database
Init ==
  /\ installed \in Tables
  /\ _states = [s \in Descriptors |-> None]
  /\ rollback_warnings \in BOOLEAN
  /\ last = NoCall
  /\ walk = NoWalk
  /\ managers = NoManagers

Finish(op, versions, arg, from_version, c) ==
  /\ last.op = "idle"
  /\ installed' = c.db
  /\ _states' = c.states
  /\ last' = Last(op, versions, arg, from_version, c)
  /\ UNCHANGED <<rollback_warnings, walk, managers>>

\* cls.upgrade(dbinterface, from_version), called on the class directly
Upgrade ==
  \E cls \in Nodes, from_version \in FromVersions, bad \in FailingActions :
    Finish("upgrade", <<cls>>, None, from_version,
           sqlite_upgrade(cls, from_version, Call(installed, _states, bad)))

\* cls.rollback(dbinterface), called on the class directly
Rollback ==
  \E cls \in Nodes, bad \in FailingActions :
    Finish("rollback", <<cls>>, None, PyNone,
           sqlite_rollback(cls, Call(installed, _states, bad)))

\* cls.find_previous_version(versionnumber)
FindPreviousVersion ==
  \E cls \in Nodes, versionnumber \in VersionNumbers :
    LET found == find_previous_version(cls, versionnumber)
        c == Call(installed, _states, None)
    IN  Finish("find_previous_version", <<cls>>, None, versionnumber,
               IF found \in Errors THEN Raise(c, found)
               ELSE [c EXCEPT !.ret = found])

\* manager.register_versions(*versions)
RegisterVersions ==
  \E versions \in Batches, bad \in FailingActions :
    Finish("register_versions", versions, None, PyNone,
           register_versions(versions, rollback_warnings,
                             Call(installed, _states, bad)))

\* manager.rollback(state)
ManagerRollback ==
  \E arg \in States \cup Nodes, bad \in FailingActions :
    Finish("manager_rollback", <<>>, arg, PyNone,
           VersionManager_rollback(arg, Call(installed, _states, bad)))

\* the States that were constructed with the name "Core", and their classes
Namesakes == {d \in Descriptors : StateName[d] = "Core"}

NamesakeClasses == {cls \in Classes : state(cls) \in Namesakes}

\* manager.register_versions(cls) for a class of a State named "Core"
RegisterNamesake ==
  \E cls \in NamesakeClasses :
    Finish("register_versions", <<cls>>, None, PyNone,
           register_versions(<<cls>>, rollback_warnings,
                             Call(installed, _states, None)))

\* manager.rollback(state) for a State named "Core"
RollbackNamesake ==
  \E arg \in Namesakes :
    Finish("manager_rollback", <<>>, arg, PyNone,
           VersionManager_rollback(arg, Call(installed, _states, None)))

\* the caller has the outcome of the call and goes on to its next statement
Return ==
  /\ last.op # "idle"
  /\ last' = NoCall
  /\ UNCHANGED <<installed, _states, rollback_warnings, walk, managers>>

\* the relational operators of Python and the operands a caller compares a
\* class with
Operators == {"==", "!=", "<", "<=", ">", ">="}

Operands == FromVersions \cup VersionNumbers

\* the value of the expression  cls op other
Expr(op, cls, other) ==
  CASE op = "==" -> SelfEq(cls, other)
    [] op = "!=" -> Version_ne(cls, other)
    [] op = "<" -> SelfLt(cls, other)
    [] op = "<=" -> Version_le(cls, other)
    [] op = ">" -> Version_gt(cls, other)
    [] op = ">=" -> Version_ge(cls, other)

\* cls op other, evaluated by the caller
Compare ==
  \E cls \in Nodes, op \in Operators, other \in Operands :
    LET c == Call(installed, _states, None)
    IN  Finish("compare", <<cls>>, op, other,
               IF Expr(op, cls, other) = "TypeError" THEN Raise(c, "TypeError")
               ELSE [c EXCEPT !.ret = Expr(op, cls, other)])

\* the class methods of StateVersion, called directly on a database
Next ==
  \/ Upgrade
  \/ Rollback
  \/ FindPreviousVersion
  \/ Return

Spec == Init /\ [][Next]_vars

\* the VersionManager, the only caller of the class methods
NextManager ==
  \/ RegisterVersions
  \/ ManagerRollback
  \/ Return

SpecManager == Init /\ [][NextManager]_vars

\* the comparisons of the Version metaclass, written by a caller
NextCompare ==
  \/ Compare
  \/ Return

SpecCompare == Init /\ [][NextCompare]_vars

(***************************************************************************)
(* upgrade and find_previous_version followed one frame of the recursion   *)
(* at a time: the frames entered on the way down (path), then, for         *)
(* upgrade, the frames left on the way up, each applying its action and    *)
(* recording its version.                                                  *)
(***************************************************************************)
Frame(kind, val) == [kind |-> kind, val |-> val]

\* slip: the method is called again on the class itself
NextFrame_same(cls) == cls

\* the class on which a frame calls the method again
NextFrame(cls) == previous_version(cls)

\* the body of StateVersion.upgrade on cls up to its first call: it raises,
\* calls upgrade on the predecessor, returns at once, or goes on to the action
upgrade_frame(cls, from_version) ==
  IF ~Truthy(from_version)
  THEN IF ~is_base_verison(cls)
       THEN IF previous_version(cls) = "ValueError"
            THEN Frame("raise", "ValueError")
            ELSE Frame("recurse", NextFrame(cls))
       ELSE Frame("apply", cls)
  ELSE IF FromGt(from_version, cls) = "TypeError" THEN Frame("raise", "TypeError")
  ELSE IF FromGt(from_version, cls) = "True" THEN Frame("raise", "AttributeError")
  ELSE IF FromEq(from_version, cls) = "True" THEN Frame("return", cls)
  ELSE IF previous_version(cls) = "ValueError" THEN Frame("raise", "ValueError")
  ELSE IF FromLt(from_version, previous_version(cls)) = "TypeError"
       THEN Frame("raise", "TypeError")
  ELSE IF FromLt(from_version, previous_version(cls)) = "True"
       THEN Frame("recurse", NextFrame(cls))
  ELSE Frame("apply", cls)

\* the body of StateVersion.find_previous_version on cls: it raises, returns
\* the predecessor, or calls find_previous_version on the predecessor
find_frame(cls, versionnumber) ==
  IF versionnumber.t \notin {"str", "dv"} THEN Frame("raise", "TypeError")
  ELSE IF previous_version(cls) = "ValueError" THEN Frame("raise", "ValueError")
  ELSE IF previous_version(cls) = None
       THEN Frame("raise", "VersionNotFoundError")
  ELSE IF SelfEq(previous_version(cls), versionnumber) = "True"
       THEN Frame("return", previous_version(cls))
  ELSE Frame("recurse", NextFrame(cls))

\* cls.upgrade(dbinterface, from_version) or
\* cls.find_previous_version(versionnumber) is called: its first frame is entered
WalkCall ==
  /\ walk.op = "idle"
  /\ last.op = "idle"
  /\ \/ \E cls \in Nodes, from_version \in FromVersions :
          walk' = [NoWalk EXCEPT !.op = "upgrade", !.cls = cls,
                                 !.from = from_version, !.path = <<cls>>,
                                 !.phase = "down", !.db0 = installed]
     \/ \E cls \in Nodes, versionnumber \in VersionNumbers :
          walk' = [NoWalk EXCEPT !.op = "find_previous_version", !.cls = cls,
                                 !.from = versionnumber, !.path = <<cls>>,
                                 !.phase = "down", !.db0 = installed]
  /\ UNCHANGED <<installed, _states, rollback_warnings, last, managers>>

\* the frame entered last runs up to its first call
WalkDown ==
  /\ walk.phase = "down"
  /\ LET cur == walk.path[Len(walk.path)]
         f == IF walk.op = "upgrade" THEN upgrade_frame(cur, walk.from)
              ELSE find_frame(cur, walk.from)
     IN  CASE f.kind = "raise" ->
                walk' = [walk EXCEPT !.phase = "done", !.err = f.val]
           [] f.kind = "recurse" ->
                /\ Len(walk.path) < MaxDepth
                /\ walk' = [walk EXCEPT !.path = Append(@, f.val)]
           [] f.kind = "return" /\ walk.op = "upgrade" ->
                walk' = [walk EXCEPT !.phase = "up", !.returns = TRUE]
           [] f.kind = "return" /\ walk.op # "upgrade" ->
                walk' = [walk EXCEPT !.phase = "done", !.ret = f.val]
           [] f.kind = "apply" ->
                walk' = [walk EXCEPT !.phase = "up"]
  /\ UNCHANGED <<installed, _states, rollback_warnings, last, managers>>

\* the innermost frame of upgrade still open applies its action, unless it
\* returned at once, and sqlite.StateVersion.upgrade records its version
WalkUp ==
  /\ walk.phase = "up"
  /\ LET i == Len(walk.path) - walk.unwound
         cur == walk.path[i]
         applies == ~(walk.returns /\ walk.unwound = 0)
     IN  /\ walk' = [walk EXCEPT
                       !.log = IF applies THEN Append(@, Act("upgrade", cur))
                               ELSE @,
                       !.unwound = @ + 1,
                       !.phase = IF i = 1 THEN "done" ELSE "up"]
         /\ installed' = set_version(installed, cur)
  /\ UNCHANGED <<_states, rollback_warnings, last, managers>>

WalkStep == WalkDown \/ WalkUp

NextWalk ==
  \/ WalkCall
  \/ WalkDown
  \/ WalkUp

\* one call on a new or an existing database; a call that has been entered
\* goes on running
SpecWalk == Init /\ [][NextWalk]_vars /\ WF_vars(WalkStep)

(***************************************************************************)
(* Two VersionManagers on one database, both calling                       *)
(* register_versions(cls): each reads the installed version, then runs the *)
(* actions its own reading calls for, recording each version after its     *)
(* action, and enters cls in its own _states.                              *)
(***************************************************************************)
\* the table as a manager that read currentversion for cls believes it to be
AsRead(cls, currentversion) ==
  IF currentversion.t = "str"
  THEN {Row(StateName[state(cls)], currentversion.s)}
  ELSE {}

\* what the body of the loop of register_versions does after check_version
\* returned currentversion: the actions it runs, or the exception it raises
planned(cls, currentversion) ==
  register_version(cls, rollback_warnings,
                   Call(AsRead(cls, currentversion),
                        [s \in Descriptors |-> None], None))

\* both managers are handed the same class
BothRegister ==
  /\ managers.cls = None
  /\ last.op = "idle"
  /\ walk.op = "idle"
  /\ \E cls \in Nodes : managers' = [managers EXCEPT !.cls = cls]
  /\ UNCHANGED <<installed, _states, rollback_warnings, last, walk>>

\* line 99: manager m reads the installed version, and decides what to run
CheckVersion(m) ==
  /\ managers.cls # None
  /\ managers.pc[m] = "idle"
  /\ LET currentversion == check_version(installed, managers.cls)
         r == planned(managers.cls, currentversion)
         todo == [i \in 1..Len(r.log) |-> r.log[i].node]
     IN  managers' =
           [managers EXCEPT
              !.current[m] = currentversion,
              !.err[m] = r.err,
              !.todo[m] = IF Failed(r) THEN <<>> ELSE todo,
              !.active[m] = IF ~Failed(r) /\ todo = <<>> THEN managers.cls ELSE @,
              !.pc[m] = IF Failed(r) \/ todo = <<>> THEN "done" ELSE "checked"]
  /\ UNCHANGED <<installed, _states, rollback_warnings, last, walk>>

\* apply_upgrade of the next class manager m has to run
ApplyUpgrade(m) ==
  /\ managers.pc[m] = "checked"
  /\ managers' =
       [managers EXCEPT
          !.log = Append(@, [manager |-> m,
                             act |-> Act("upgrade", Head(managers.todo[m]))]),
          !.pc[m] = "applied"]
  /\ UNCHANGED <<installed, _states, rollback_warnings, last, walk>>

\* set_version of the class whose action manager m has run; after the last
\* one, line 115 enters the class in the manager's _states
RecordVersion(m) ==
  /\ managers.pc[m] = "applied"
  /\ installed' = set_version(installed, Head(managers.todo[m]))
  /\ managers' =
       [managers EXCEPT
          !.todo[m] = Tail(@),
          !.active[m] = IF Tail(managers.todo[m]) = <<>> THEN managers.cls ELSE @,
          !.pc[m] = IF Tail(managers.todo[m]) = <<>> THEN "done" ELSE "checked"]
  /\ UNCHANGED <<_states, rollback_warnings, last, walk>>

NextConcurrent ==
  \/ BothRegister
  \/ \E m \in Managers : CheckVersion(m)
  \/ \E m \in Managers : ApplyUpgrade(m)
  \/ \E m \in Managers : RecordVersion(m)

SpecConcurrent == Init /\ [][NextConcurrent]_vars

\* one manager serving two State objects of the same name
NextNamesake ==
  \/ RegisterNamesake
  \/ RollbackNamesake
  \/ Return

SpecNamesake == Init /\ [][NextNamesake]_vars

(***************************************************************************)
(* Vocabulary of the properties.                                           *)
(***************************************************************************)
\* the classes from the base version up to cls, following PREVIOUSVERSION
RECURSIVE Chain(_)
Chain(cls) ==
  IF PREVIOUSVERSION[cls] = None THEN <<cls>>
  ELSE Append(Chain(PREVIOUSVERSION[cls]), cls)

\* every link of the chain stays in one State and ascends in version
WellFormed(cls) ==
  \A i \in 2..Len(Chain(cls)) :
    /\ state(Chain(cls)[i - 1]) = state(Chain(cls)[i])
    /\ DotVersion_lt(version(Chain(cls)[i - 1]), version(Chain(cls)[i]))

StrictPredecessors(cls) == {Chain(cls)[i] : i \in 1..(Len(Chain(cls)) - 1)}

\* the part of the chain of cls that lies strictly after its predecessor p
ChainAfter(cls, p) ==
  LET i == CHOOSE k \in 1..Len(Chain(cls)) : Chain(cls)[k] = p
  IN  SubSeq(Chain(cls), i + 1, Len(Chain(cls)))

Acts(kind, classes) == [i \in 1..Len(classes) |-> Act(kind, classes[i])]

\* a direct call cls.upgrade(dbinterface, from_version) has returned or raised
Upgraded(cls) == last.op = "upgrade" /\ last.versions = <<cls>>

\* from_version is present and carries the version v
FromIs(v) == Truthy(last.from) /\ OtherVersion(last.from) = v

\* C1: for every well-formed chain base <- ... <- node, upgrade(node, absent)
\* applies the upgrade action of every class from the base version up to and
\* including node, in chain order, once each, and no other action (no action
\* raising).
C1_UpgradeFromAbsentLaysChain ==
  \A cls \in Nodes :
    (Upgraded(cls) /\ ~Truthy(last.from) /\ WellFormed(cls)
       /\ last.err # "ActionError")
      => last.err = None /\ last.log = Acts("upgrade", Chain(cls))

C1_Witness ==
  /\ Upgraded("c3")
  /\ last.from = PyNone
  /\ last.log = Acts("upgrade", <<"c1", "c2", "c3">>)

\* C2: for every well-formed chain and installed version equal to the version
\* of a strict predecessor P of node, upgrade(node, installed) applies exactly
\* the upgrade actions of the classes strictly after P up to node, in chain
\* order, and no action of P or of a class before P.
C2_UpgradeFromPredecessor ==
  \A cls \in Nodes : \A p \in StrictPredecessors(cls) :
    (Upgraded(cls) /\ WellFormed(cls) /\ FromIs(version(p))
       /\ last.err # "ActionError")
      => last.err = None /\ last.log = Acts("upgrade", ChainAfter(cls, p))

C2_Witness ==
  /\ Upgraded("c3")
  /\ last.from = PyStr(VERSION["c1"])
  /\ last.log = Acts("upgrade", <<"c2", "c3">>)

\* C3: in every call of upgrade, completed or failed, on any chain and with any
\* installed version, each class's upgrade action runs at most once and the
\* versions of the actions run form a strictly ascending sequence.
C3_UpgradeAscending ==
  last.op = "upgrade" =>
    \A i, j \in 1..Len(last.log) :
      i < j => /\ last.log[i].node # last.log[j].node
               /\ DotVersion_lt(version(last.log[i].node),
                                version(last.log[j].node))

\* C4: upgrade(node, installed) with installed equal to node.version applies
\* no upgrade action of any class.
C4_UpgradeAtTargetIsNoOp ==
  \A cls \in Nodes :
    (Upgraded(cls) /\ FromIs(version(cls)))
      => last.log = <<>> /\ last.err = None

C4_Witness ==
  /\ Upgraded("c2")
  /\ last.from = PyStr(VERSION["c2"])
  /\ last.log = <<>>
  /\ last.err = None

\* C5: upgrade(node, installed) with installed greater than node.version fails
\* with the upgrade-to-lesser-version error (AttributeError) and applies no
\* upgrade action before failing.
C5_UpgradeToLesserFails ==
  \A cls \in Nodes :
    (Upgraded(cls) /\ Truthy(last.from)
       /\ DotVersion_lt(version(cls), OtherVersion(last.from)))
      => /\ last.err = "AttributeError"
         /\ last.log = <<>>
         /\ installed = last.db0

C5_Witness ==
  /\ Upgraded("c1")
  /\ last.from = PyStr(VERSION["c2"])
  /\ last.err = "AttributeError"
  /\ last.log = <<>>

\* the caller's loop  node = top; while node is not None: node = node.rollback(db)
RECURSIVE RollbackAll(_, _)
RollbackAll(cls, c) ==
  LET r == sqlite_rollback(cls, c)
  IN  IF Failed(r) \/ r.ret = None THEN r ELSE RollbackAll(r.ret, r)

Reverse(seq) == [i \in 1..Len(seq) |-> seq[Len(seq) + 1 - i]]

\* C6: rollback(node) applies exactly one action, node's own rollback action,
\* and returns node.previous (absent for a base version); repeated on each
\* returned class from the top of a chain of n classes it applies the n
\* rollback actions in strictly descending version order and ends with absent.
C6_RollbackOneStepDown ==
  /\ \A cls \in Nodes :
       (last.op = "rollback" /\ last.versions = <<cls>>)
         => /\ last.log = <<Act("rollback", cls)>>
            /\ (last.err # "ActionError" /\ previous_version(cls) # "ValueError")
                 => last.err = None /\ last.ret = PREVIOUSVERSION[cls]
  /\ \A top \in Nodes :
       WellFormed(top) =>
         LET r == RollbackAll(top, Call(installed, _states, None))
         IN  /\ r.err = None
             /\ r.ret = None
             /\ r.log = Acts("rollback", Reverse(Chain(top)))
             /\ \A i \in 1..(Len(r.log) - 1) :
                  DotVersion_lt(version(r.log[i + 1].node),
                                version(r.log[i].node))

C6_Witness ==
  /\ last.op = "rollback"
  /\ last.versions = <<"c3">>
  /\ last.log = <<Act("rollback", "c3")>>
  /\ last.ret = "c2"

\* the version installed for the state of arg is that of cls
InstalledIs(db, arg, cls) ==
  /\ check_version(db, arg).t = "str"
  /\ DotVersion(check_version(db, arg).s) = version(cls)

\* manager.register_versions(cls) has returned or raised
Registered(cls) == last.op = "register_versions" /\ last.versions = <<cls>>

\* manager.rollback(state) has returned or raised, st being the State meant
RolledBack(st) == last.op = "manager_rollback" /\ _statecheck(last.arg) = st

\* C7: after register_versions(node) returns without error, when the state was
\* not installed or was installed at the version of a predecessor of node, the
\* manager's entry for node.state is node and the installed version the
\* database reports for that state equals node.version.
C7_RegisterSetsActiveAndInstalled ==
  \A cls \in Nodes :
    (/\ Registered(cls)
     /\ last.err = None
     /\ WellFormed(cls)
     /\ \/ check_version(last.db0, cls) = PyNone
        \/ \E p \in StrictPredecessors(cls) : InstalledIs(last.db0, cls, p))
      => /\ _states[state(cls)] = cls
         /\ InstalledIs(installed, cls, cls)

C7_Witness ==
  /\ Registered("c3")
  /\ last.err = None
  /\ InstalledIs(last.db0, "c3", "c1")
  /\ last.log = Acts("upgrade", <<"c2", "c3">>)
  /\ _states["sCore"] = "c3"

\* C8: manager.rollback(state) on a state whose active class is a non-base
\* class N applies only N's rollback action, makes N.previous the active class
\* of the state, and leaves the installed version equal to N.previous.version.
C8_ManagerRollbackStepsDown ==
  \A st \in States : \A N \in Nodes :
    (/\ RolledBack(st)
     /\ last.states0[st] = N
     /\ PREVIOUSVERSION[N] # None
     /\ previous_version(N) # "ValueError"
     /\ last.err # "ActionError")
      => /\ last.err = None
         /\ last.log = <<Act("rollback", N)>>
         /\ _states[st] = PREVIOUSVERSION[N]
         /\ InstalledIs(installed, st, PREVIOUSVERSION[N])

C8_Witness ==
  /\ RolledBack("sCore")
  /\ last.states0["sCore"] = "c3"
  /\ last.log = <<Act("rollback", "c3")>>
  /\ _states["sCore"] = "c2"
  /\ InstalledIs(installed, "sCore", "c2")

\* C9: manager.rollback(state) on a state whose active class is a base version
\* removes the manager's entry for the state and clears the installed-version
\* marker (check_version reports none); a later register_versions of any class
\* of that state lays its whole chain down again from the base.
C9_ManagerRollbackOfBaseUninstalls ==
  \A st \in States : \A N \in Nodes :
    (/\ RolledBack(st)
     /\ last.states0[st] = N
     /\ PREVIOUSVERSION[N] = None
     /\ last.err # "ActionError")
      => /\ last.err = None
         /\ last.log = <<Act("rollback", N)>>
         /\ _states[st] = None
         /\ check_version(installed, st) = PyNone
         /\ \A cls \in Nodes :
              (state(cls) = st /\ WellFormed(cls)) =>
                LET r == register_versions(<<cls>>, rollback_warnings,
                                           Call(installed, _states, None))
                IN  /\ r.err = None
                    /\ r.log = Acts("upgrade", Chain(cls))
                    /\ r.states[st] = cls

C9_Witness ==
  /\ RolledBack("sCore")
  /\ last.states0["sCore"] = "c1"
  /\ last.db0 # {}
  /\ last.err = None
  /\ _states["sCore"] = None
  /\ check_version(installed, "sCore") = PyNone

\* every entry of the manager carries the version installed for its state
Consistent(db, reg) ==
  \A st \in States :
    (reg[st] # None /\ WellFormed(reg[st])) => InstalledIs(db, st, reg[st])

\* C10: the manager's active class of a state is the class last applied or
\* rolled back to: after register_versions and rollback calls that return
\* without error, an entry of the manager carries the version the database
\* reports as installed for its state.
C10_RegistryMatchesInstalled ==
  (/\ last.op \in {"register_versions", "manager_rollback"}
   /\ last.err = None
   /\ Consistent(last.db0, last.states0))
    => Consistent(installed, _states)

\* the version installed for the state of arg is above that of cls
InstalledAbove(db, arg, cls) ==
  /\ check_version(db, arg).t = "str"
  /\ DotVersion_lt(version(cls), DotVersion(check_version(db, arg).s))

\* C11: register_versions(node) with node.version below the installed version
\* emits the rollback warning when rollback_warnings is enabled and fails with
\* RollbackError when it is disabled; in both modes no action of any class
\* runs and the installed version is unchanged, and in the error mode the
\* manager's entries are unchanged too.
C11_RegisterBelowInstalledWarnsOrFails ==
  \A cls \in Nodes :
    (Registered(cls) /\ InstalledAbove(last.db0, cls, cls))
      => /\ last.log = <<>>
         /\ installed = last.db0
         /\ rollback_warnings => last.err = None /\ last.warnings = 1
         /\ ~rollback_warnings => /\ last.err = "RollbackError"
                                  /\ last.warnings = 0
                                  /\ _states = last.states0

C11_Witness ==
  /\ Registered("c1")
  /\ ~rollback_warnings
  /\ last.states0["sCore"] = "c3"
  /\ InstalledIs(last.db0, "sCore", "c3")
  /\ last.err = "RollbackError"
  /\ _states["sCore"] = "c3"
  /\ InstalledIs(installed, "sCore", "c3")

\* C12: manager.rollback(state) for a state without an entry fails with the
\* unregistered-state error (KeyError), runs no rollback action and leaves the
\* manager's entries and the installed versions unchanged; so does a second
\* rollback after the rollback that removed the base version.
C12_RollbackOfUnregisteredFails ==
  \A st \in States :
    /\ (RolledBack(st) /\ last.states0[st] = None)
          => /\ last.err = "KeyError"
             /\ last.log = <<>>
             /\ _states = last.states0
             /\ installed = last.db0
    /\ (/\ RolledBack(st)
        /\ last.states0[st] # None
        /\ PREVIOUSVERSION[last.states0[st]] = None
        /\ last.err = None)
          => \A bad \in FailingActions :
               LET r == VersionManager_rollback(
                          st, Call(installed, _states, bad))
               IN  /\ r.err = "KeyError"
                   /\ r.log = <<>>
                   /\ r.states = _states
                   /\ r.db = installed

C12_Witness ==
  /\ RolledBack("sCore")
  /\ last.states0["sCore"] = None
  /\ last.states0["sAux"] # None
  /\ check_version(last.db0, "sCore") # PyNone
  /\ last.err = "KeyError"
  /\ last.log = <<>>

\* the call as it stands before the loop and after each class of versions has
\* gone through the body of the loop, one after the other
RECURSIVE Processed(_, _, _)
Processed(versions, rollback_warnings_, steps) ==
  IF versions = <<>> THEN steps
  ELSE Processed(Tail(versions), rollback_warnings_,
                 Append(steps, register_version(Head(versions),
                                                rollback_warnings_,
                                                steps[Len(steps)])))

\* the class whose action raised in the call that has returned, if any
BadOfLast ==
  IF last.err = "ActionError" THEN last.log[Len(last.log)].node ELSE None

\* C13: register_versions(n1, ..., nk) processes the classes in the order
\* given; when processing ni fails, what n1..n(i-1) applied and entered stays,
\* the state of ni gets no entry from ni, and n(i+1)..nk are not processed: no
\* action of theirs runs and no entry is set for them.
C13_RegisterInOrderAbortsAtFailure ==
  last.op = "register_versions" =>
    LET vs == last.versions
        steps == Processed(vs, rollback_warnings,
                           <<Call(last.db0, last.states0, BadOfLast)>>)
        P(j) == steps[j + 1]
    IN  /\ \A i \in 1..Len(vs) :
             ((\A j \in 1..(i - 1) : ~Failed(P(j))) /\ Failed(P(i)))
               => /\ last.err = P(i).err
                  /\ last.log = P(i).log
                  /\ installed = P(i).db
                  /\ _states = P(i - 1).states
                  /\ \A j \in (i + 1)..Len(vs) :
                       (\A k \in 1..i : state(vs[k]) # state(vs[j]))
                         => /\ _states[state(vs[j])] = last.states0[state(vs[j])]
                            /\ check_version(installed, vs[j])
                                 = check_version(last.db0, vs[j])
        /\ (\A j \in 1..Len(vs) : ~Failed(P(j)))
             => /\ last.err = None
                /\ last.log = P(Len(vs)).log
                /\ installed = P(Len(vs)).db
                /\ _states = P(Len(vs)).states

C13_Witness ==
  /\ last.op = "register_versions"
  /\ last.versions = <<"a3", "c3">>
  /\ last.db0 = {}
  /\ last.err = "ActionError"
  /\ last.log = <<Act("upgrade", "a3"), Act("upgrade", "c1"),
                  Act("upgrade", "c2")>>
  /\ _states["sAux"] = "a3"
  /\ _states["sCore"] = None
  /\ InstalledIs(installed, "sCore", "c1")

\* every link of the chain of cls stays in one State
OneState(cls) ==
  \A i \in 2..Len(Chain(cls)) : state(Chain(cls)[i - 1]) = state(Chain(cls)[i])

\* the version installed for the state of arg is below that of cls
InstalledBelow(db, arg, cls) ==
  /\ check_version(db, arg).t = "str"
  /\ DotVersion_lt(DotVersion(check_version(db, arg).s), version(cls))

\* C14: register_versions(node) when the installed version is below
\* node.version and is the version of no class of the chain of node fails
\* with VersionNotFoundError, runs no upgrade action and leaves the manager's
\* entries and the installed version unchanged (chains of one State).
C14_RegisterOffChainFails ==
  \A cls \in Nodes :
    (/\ Registered(cls)
     /\ OneState(cls)
     /\ InstalledBelow(last.db0, cls, cls)
     /\ \A i \in 1..Len(Chain(cls)) :
          ~InstalledIs(last.db0, cls, Chain(cls)[i]))
      => /\ last.err = "VersionNotFoundError"
         /\ last.log = <<>>
         /\ _states = last.states0
         /\ installed = last.db0

C14_Witness ==
  /\ Registered("c3")
  /\ last.db0 = {Row("Core", <<"1", ".", "1">>)}
  /\ last.err = "VersionNotFoundError"
  /\ last.log = <<>>
  /\ installed = last.db0

\* C15: register_versions(node) when the installed version equals
\* node.version runs no action, leaves the installed version unchanged and
\* makes node the active class; so registering a class again after it has
\* been registered leaves the manager's entries, the installed version and
\* the actions applied as they were after the first registration.
C15_RegisterAtInstalledIsIdempotent ==
  \A cls \in Nodes :
    /\ (Registered(cls) /\ InstalledIs(last.db0, cls, cls))
          => /\ last.err = None
             /\ last.log = <<>>
             /\ last.warnings = 0
             /\ installed = last.db0
             /\ _states = [last.states0 EXCEPT ![state(cls)] = cls]
    /\ (Registered(cls) /\ last.err = None)
          => \A bad \in FailingActions :
               LET r == register_versions(<<cls>>, rollback_warnings,
                                          Call(installed, _states, bad))
               IN  /\ r.err = None
                   /\ r.log = <<>>
                   /\ r.db = installed
                   /\ r.states = _states
    /\ (last.op = "register_versions" /\ last.versions = <<cls, cls>>)
          => LET r == register_versions(<<cls>>, rollback_warnings,
                        Call(last.db0, last.states0, BadOfLast))
             IN  /\ last.err = r.err
                 /\ last.log = r.log
                 /\ installed = r.db
                 /\ _states = r.states

C15_Witness ==
  /\ Registered("c3")
  /\ last.states0["sCore"] = "c3"
  /\ InstalledIs(last.db0, "c3", "c3")
  /\ last.err = None
  /\ last.log = <<>>
  /\ _states["sCore"] = "c3"
  /\ installed = last.db0

\* the numeric components the VERSION of each class denotes
Components ==
  [n \in Nodes |->
     CASE n = "c1" -> <<1, 0>>
       [] n = "c2" -> <<2, 0>>
       [] n = "c3" -> <<2, 1>>
       [] n = "a3" -> <<3, 0>>
       [] n = "a2" -> <<2, 0>>
       [] n = "x4" -> <<3, 1>>]

\* a is before b, comparing the components from left to right
NumericLess(a, b) ==
  \/ \E k \in 1..Len(a) :
       /\ k <= Len(b)
       /\ \A j \in 1..(k - 1) : a[j] = b[j]
       /\ a[k] < b[k]
  \/ /\ Len(a) < Len(b)
     /\ \A j \in 1..Len(a) : a[j] = b[j]

\* the result of the comparison the caller has made: its value, or its exception
Compared == IF last.err = None THEN last.ret ELSE last.err

C17_OperandFormsAgree ==
  (last.op = "compare" /\ last.from.t # "none") =>
    LET N == last.versions[1]
        x == last.from
        v == OtherVersion(x)
    IN  /\ Compared \in {"True", "False"}
        /\ \A s \in VersionStrings :
             DotVersion(s) = v =>
               /\ Expr(last.arg, N, PyStr(s)) = Compared
               /\ Expr(last.arg, N, PyDV(DotVersion(s))) = Compared
        /\ \A M \in Nodes :
             version(M) = v => Expr(last.arg, N, PyNode(M)) = Compared
        /\ last.arg = "<=" =>
             (Compared = "True"
                <=> (Expr("==", N, x) = "True" \/ Expr("<", N, x) = "True"))
        /\ last.arg = ">" =>
             (Compared = "True" <=> Expr("<=", N, x) # "True")
        /\ last.arg = ">=" =>
             (Compared = "True" <=> Expr("<", N, x) # "True")
        /\ last.arg = "!=" =>
             (Compared = "True" <=> Expr("==", N, x) # "True")

C17_Witness ==
  /\ last.op = "compare"
  /\ last.versions = <<"c2">>
  /\ last.arg = ">="
  /\ last.from = PyStr(<<"2", ".", "0">>)
  /\ last.ret = "True"

\* C18: upgrade(node, installed) called directly on a base version with
\* installed present and less than node.version fails with
\* VersionNotFoundError and does not apply node's upgrade action.
C18_UpgradeBaseFromBelowNotFound ==
  \A cls \in Nodes :
    (/\ Upgraded(cls)
     /\ PREVIOUSVERSION[cls] = None
     /\ Truthy(last.from)
     /\ DotVersion_lt(OtherVersion(last.from), version(cls)))
      => /\ last.err = "VersionNotFoundError"
         /\ last.log = <<>>

\* C19: in every upgrade(node, installed) with installed present, when the
\* upgrade action of a class M is invoked the version installed at that moment
\* (the installed version given, or the version of the class whose action was
\* applied just before) equals M.previous.version; so no action is applied
\* when the installed version lies strictly between two chain versions.
C19_ActionAppliedAtPredecessorVersion ==
  (last.op = "upgrade" /\ Truthy(last.from)) =>
    \A i \in 1..Len(last.log) :
      LET M == last.log[i].node
          at == IF i = 1 THEN OtherVersion(last.from)
                ELSE version(last.log[i - 1].node)
      IN  /\ PREVIOUSVERSION[M] # None
          /\ at = version(PREVIOUSVERSION[M])

\* C20: a chain with a class whose previous has another State, or whose
\* previous.version is not strictly less than its own version, is rejected
\* with an error when upgrade or find_previous_version traverses that link,
\* before any upgrade action is applied; such a chain never has actions
\* applied.
C20_IllFormedChainRejected ==
  \A cls \in Nodes :
    ~WellFormed(cls) =>
      /\ Upgraded(cls) => last.log = <<>>
      /\ (Upgraded(cls) /\ ~Truthy(last.from)) => last.err # None
      /\ (/\ last.op = "find_previous_version"
          /\ last.versions = <<cls>>
          /\ last.from.t \in {"str", "dv"})
           => last.err # None

\* the positions of the strict predecessors of cls that carry the version v
PredecessorsAt(cls, v) ==
  {i \in 1..(Len(Chain(cls)) - 1) : version(Chain(cls)[i]) = v}

OtherRows(db, arg) == {r \in db : r.state # StateName[_statecheck(arg)]}

\* the call that has returned was made on the State st alone
CallOn(st) ==
  \/ /\ last.op = "register_versions"
     /\ last.versions # <<>>
     /\ \A i \in 1..Len(last.versions) : state(last.versions[i]) = st
  \/ RolledBack(st)

\* C23: for two States with different names, a register_versions or rollback
\* call on one of them leaves the manager's entry and the installed version of
\* the other unchanged and runs no action of a class of the other.
C23_OtherStateUntouched ==
  \A st \in States : \A other \in States \ {st} :
    (CallOn(st) /\ StateName[st] # StateName[other])
      => /\ _states[other] = last.states0[other]
         /\ check_version(installed, other) = check_version(last.db0, other)
         /\ \A i \in 1..Len(last.log) : state(last.log[i].node) # other

C23_Witness ==
  /\ Registered("c3")
  /\ last.states0["sAux"] = "a3"
  /\ check_version(last.db0, "sAux") = PyStr(VERSION["a3"])
  /\ last.log = Acts("upgrade", <<"c1", "c2", "c3">>)
  /\ _states["sAux"] = "a3"
  /\ _states["sCore"] = "c3"
  /\ check_version(installed, "sAux") = PyStr(VERSION["a3"])

\* C24: when the upgrade action of a class M raises during
\* register_versions(node), no action of a class after M runs, the installed
\* version is that of the last class whose action completed (unchanged when
\* none completed), and the manager's entries are as before the call.
C24_FailedActionStopsChain ==
  \A cls \in Nodes :
    (Registered(cls) /\ WellFormed(cls) /\ last.err = "ActionError")
      => LET n == Len(last.log)
         IN  /\ n >= 1
             /\ \E a \in 1..Len(Chain(cls)) :
                  /\ a + n - 1 <= Len(Chain(cls))
                  /\ last.log = Acts("upgrade", SubSeq(Chain(cls), a, a + n - 1))
             /\ n = 1 => installed = last.db0
             /\ n > 1 => /\ InstalledIs(installed, cls, last.log[n - 1].node)
                         /\ OtherRows(installed, cls) = OtherRows(last.db0, cls)
             /\ _states = last.states0

C24_Witness ==
  /\ Registered("c3")
  /\ last.db0 = {}
  /\ last.err = "ActionError"
  /\ last.log = Acts("upgrade", <<"c1", "c2">>)
  /\ InstalledIs(installed, "c3", "c1")
  /\ _states["sCore"] = None

\* C25: from an entry N of the manager with N.version installed,
\* manager.rollback(state) followed by register_versions(N) makes N the active
\* class again and N.version the installed version, applying N's upgrade
\* action and no other.
C25_RollbackThenRegisterRestores ==
  \A st \in States : \A N \in Nodes :
    (/\ RolledBack(st)
     /\ last.states0[st] = N
     /\ WellFormed(N)
     /\ InstalledIs(last.db0, st, N)
     /\ last.err = None)
      => LET r == register_versions(<<N>>, rollback_warnings,
                                    Call(installed, _states, None))
         IN  /\ r.err = None
             /\ r.warnings = 0
             /\ r.log = <<Act("upgrade", N)>>
             /\ r.states = last.states0
             /\ r.db = last.db0

C25_Witness ==
  /\ RolledBack("sCore")
  /\ last.states0["sCore"] = "c3"
  /\ InstalledIs(last.db0, "sCore", "c3")
  /\ last.err = None
  /\ _states["sCore"] = "c2"
  /\ InstalledIs(installed, "sCore", "c2")
  /\ register_versions(<<"c3">>, rollback_warnings,
                       Call(installed, _states, None)).states["sCore"] = "c3"

\* C22: two distinct State objects that share a name do not collide:
\* register_versions and rollback on classes of the one never change the
\* manager's active class of the other nor the installed version that
\* check_version reports for the other.
C22_NamesakesDoNotCollide ==
  \A d \in Namesakes : \A other \in Namesakes \ {d} :
    (\/ last.op = "register_versions" /\ state(last.versions[1]) = d
     \/ RolledBack(d))
      => /\ _states[other] = last.states0[other]
         /\ check_version(installed, other) = check_version(last.db0, other)

NoRepeat(seq) == \A i, j \in 1..Len(seq) : i # j => seq[i] # seq[j]

\* a call is running; the call has returned or raised
Walking == walk.op # "idle" /\ walk.phase # "done"

Walked == walk.op # "idle" /\ walk.phase = "done"

\* the call followed frame by frame ends as the call made in one step
WalkAgrees ==
  Walked =>
    IF walk.op = "upgrade"
    THEN LET r == sqlite_upgrade(walk.cls, walk.from,
                                 Call(walk.db0, _states, None))
         IN  walk.err = r.err /\ walk.log = r.log /\ installed = r.db
    ELSE LET f == find_previous_version(walk.cls, walk.from)
         IN  IF f \in Errors THEN walk.err = f
             ELSE walk.err = None /\ walk.ret = f

\* C26: upgrade and find_previous_version terminate on every finite acyclic
\* chain and for every installed or target version, and enter each class of
\* the chain at most once (and apply each action at most once).
C26_WalksTerminateVisitingOnce ==
  /\ [](/\ NoRepeat(walk.path)
        /\ NoRepeat(walk.log)
        /\ \A i \in 1..Len(walk.path) : \E j \in 1..Len(Chain(walk.cls)) :
             walk.path[i] = Chain(walk.cls)[j])
  /\ (Walking ~> Walked)

C26_Witness ==
  /\ walk.op = "upgrade"
  /\ walk.cls = "c3"
  /\ walk.from = PyNone
  /\ walk.phase = "done"
  /\ walk.path = <<"c3", "c2", "c1">>
  /\ walk.log = Acts("upgrade", <<"c1", "c2", "c3">>)

\* the actions manager m has run against the database, in order
RunBy(m) ==
  LET mine(e) == e.manager = m
      own == SelectSeq(managers.log, mine)
  IN  [i \in 1..Len(own) |-> own[i].act]

\* how many times the action a has run against the database
Runs(a) == Cardinality({i \in 1..Len(managers.log) : managers.log[i].act = a})

BothDone == \A m \in Managers : managers.pc[m] = "done"

\* C27: nothing guards against concurrent transitions: when two managers
\* register the same class on the same database and both read the state as
\* not installed, or at the same lower version, before either records, each
\* applies the upgrade actions its reading calls for, so every such action
\* runs twice against the database.
C27_ConcurrentRegisterAppliesTwice ==
  (/\ BothDone
   /\ managers.cls # None
   /\ WellFormed(managers.cls)
   /\ managers.current["A"] = managers.current["B"])
    => LET cls == managers.cls
           read == managers.current["A"]
       IN  /\ read = PyNone =>
                /\ \A m \in Managers : RunBy(m) = Acts("upgrade", Chain(cls))
                /\ \A i \in 1..Len(Chain(cls)) :
                     Runs(Act("upgrade", Chain(cls)[i])) = 2
           /\ \A p \in StrictPredecessors(cls) :
                (read.t = "str" /\ DotVersion(read.s) = version(p)) =>
                  /\ \A m \in Managers :
                       RunBy(m) = Acts("upgrade", ChainAfter(cls, p))
                  /\ \A i \in 1..Len(ChainAfter(cls, p)) :
                       Runs(Act("upgrade", ChainAfter(cls, p)[i])) = 2

C27_Witness ==
  /\ BothDone
  /\ managers.cls = "c3"
  /\ managers.current["A"] = PyNone
  /\ managers.current["B"] = PyNone
  /\ Runs(Act("upgrade", "c1")) = 2
  /\ Len(managers.log) = 6
  /\ managers.active["A"] = "c3"
  /\ managers.active["B"] = "c3"

====
